---- MODULE Spec2Model ----
(***************************************************************************)
(* hakrawler (src/hakrawler.go): a concurrent crawler built on the colly   *)
(* collector.  main parses the flags and the -h headers, starts one        *)
(* goroutine that configures the collector, crawls the seed and closes the *)
(* results channel, and meanwhile prints every line it receives from that  *)
(* channel.  Strings are sequences of one-character strings, so that       *)
(* parsing, URL resolution, the -subs filter and the output formats are    *)
(* computed character by character as the Go code computes them.           *)
(***************************************************************************)
EXTENDS Integers, Sequences, FiniteSets, Bags, TLC

(***************************************************************************)
(* Bounds of the model.                                                    *)
(***************************************************************************)
\* -t takes values 1..MaxThreads (capacity of results, colly Parallelism)
MaxThreads == 2
\* -d takes values 0..MaxDepthFlag
MaxDepthFlag == 2
\* a run differs from the plain run (BaseFlags) in at most MaxVaried flags
MaxVaried == 2

(***************************************************************************)
(* Go's strings package, on sequences of characters.                       *)
(***************************************************************************)
\* strings.HasPrefix(s, p)
HasPrefix(s, p) ==
    /\ Len(p) <= Len(s)
    /\ SubSeq(s, 1, Len(p)) = p

\* strings.HasSuffix(s, p)
HasSuffix(s, p) ==
    /\ Len(p) <= Len(s)
    /\ SubSeq(s, Len(s) - Len(p) + 1, Len(s)) = p

\* the 1-based positions at which p occurs in s
Occurrences(s, p) ==
    {i \in 1..(Len(s) - Len(p) + 1) : SubSeq(s, i, i + Len(p) - 1) = p}

\* strings.Index(s, p), 1-based; 0 when p does not occur in s
Index(s, p) ==
    IF Occurrences(s, p) = {} THEN 0
    ELSE CHOOSE i \in Occurrences(s, p) : \A j \in Occurrences(s, p) : i <= j

\* strings.LastIndex(s, p), 1-based; 0 when p does not occur in s
LastIndex(s, p) ==
    IF Occurrences(s, p) = {} THEN 0
    ELSE CHOOSE i \in Occurrences(s, p) : \A j \in Occurrences(s, p) : i >= j

\* strings.Contains(s, p)
Contains(s, p) == Occurrences(s, p) # {}

\* s[i:] of Go for the 1-based position i
From(s, i) == SubSeq(s, i, Len(s))

\* s[:i] of Go: the characters before the 1-based position i
Before(s, i) == SubSeq(s, 1, i - 1)

\* s cut around the n characters at position i; <<s, "", FALSE>> when i is 0
CutAt(s, i, n) ==
    IF i = 0 THEN <<s, <<>>, FALSE>> ELSE <<Before(s, i), From(s, i + n), TRUE>>

\* strings.Cut(s, sep): <<before, after, found>>
Cut(s, sep) == CutAt(s, Index(s, sep), Len(sep))

\* strings.Split(s, sep) for a non-empty sep
RECURSIVE SplitCut(_, _)
SplitCut(cut, sep) ==
    IF cut[3] THEN <<cut[1]>> \o SplitCut(Cut(cut[2], sep), sep) ELSE <<cut[1]>>

Split(s, sep) == SplitCut(Cut(s, sep), sep)

\* strings.SplitN(s, sep, 2) for a sep that occurs in s
CutPair(cut) == <<cut[1], cut[2]>>

SplitN2(s, sep) == CutPair(Cut(s, sep))

\* strings.TrimSpace(s)
RECURSIVE TrimLeft(_)
TrimLeft(s) == IF s # <<>> /\ Head(s) = " " THEN TrimLeft(Tail(s)) ELSE s

RECURSIVE TrimRight(_)
TrimRight(s) ==
    IF s # <<>> /\ s[Len(s)] = " " THEN TrimRight(Before(s, Len(s))) ELSE s

TrimSpace(s) == TrimRight(TrimLeft(s))

(***************************************************************************)
(* parseHeaders: the headers map is NilHeaders until make() runs.          *)
(***************************************************************************)
NilHeaders == [isNil |-> TRUE, map |-> <<>>]

\* line 229: headers[key] = val
MapPut(m, key, val) ==
    [k \in (DOMAIN m) \cup {key} |-> IF k = key THEN val ELSE m[k]]

PutParts(m, parts) == MapPut(m, TrimSpace(parts[1]), TrimSpace(parts[2]))

\* lines 221-229: one iteration of the loop over the ";;"-separated parts
HeaderPut(m, header) ==
    IF Contains(header, <<":", " ">>) THEN PutParts(m, SplitN2(header, <<":", " ">>))
    ELSE IF Contains(header, <<":">>) THEN PutParts(m, SplitN2(header, <<":">>))
    ELSE m

RECURSIVE HeaderLoop(_, _)
HeaderLoop(m, parts) ==
    IF parts = <<>> THEN m
    ELSE HeaderLoop(HeaderPut(m, Head(parts)), Tail(parts))

\* parseHeaders without the test of line 214
parseHeadersNoColonTest(rawHeaders) ==
    IF rawHeaders = <<>> THEN [err |-> FALSE, headers |-> NilHeaders]
    ELSE [err |-> FALSE,
          headers |-> [isNil |-> FALSE,
                       map |-> HeaderLoop(<<>>, Split(rawHeaders, <<";", ";">>))]]

\* parseHeaders(rawHeaders): [err, headers] with headers the global afterwards
parseHeaders(rawHeaders) ==
    IF rawHeaders = <<>> THEN [err |-> FALSE, headers |-> NilHeaders]
    ELSE IF ~Contains(rawHeaders, <<":">>) THEN [err |-> TRUE, headers |-> NilHeaders]
    ELSE [err |-> FALSE,
          headers |-> [isNil |-> FALSE,
                       map |-> HeaderLoop(<<>>, Split(rawHeaders, <<";", ";">>))]]

(***************************************************************************)
(* net/url on sequences of bytes.  A printable ASCII byte other than the   *)
(* grave accent (0x60) is the string of that one character; any other      *)
(* byte, which only the decoding of a percent escape produces, is the      *)
(* string of its two upper-case hex digits.  Inputs are made of the        *)
(* one-character bytes without "@", so no userinfo arises.                 *)
(***************************************************************************)
LowerLetters ==
    <<"a","b","c","d","e","f","g","h","i","j","k","l","m",
      "n","o","p","q","r","s","t","u","v","w","x","y","z">>

UpperLetters ==
    <<"A","B","C","D","E","F","G","H","I","J","K","L","M",
      "N","O","P","Q","R","S","T","U","V","W","X","Y","Z">>

Digits == {"0","1","2","3","4","5","6","7","8","9"}

IsLetter(ch) == \E i \in 1..26 : ch = LowerLetters[i] \/ ch = UpperLetters[i]

\* strings.ToLower
ToLowerChar(ch) ==
    IF \E i \in 1..26 : ch = UpperLetters[i]
    THEN LowerLetters[CHOOSE i \in 1..26 : ch = UpperLetters[i]]
    ELSE ch

ToLower(s) == [i \in 1..Len(s) |-> ToLowerChar(s[i])]

\* upperhex
HexDigits == <<"0","1","2","3","4","5","6","7","8","9","A","B","C","D","E","F">>

\* ishex(c): a digit or one of the letters a to f in either case
ishex(ch) == \E i \in 1..16 : ch = HexDigits[i] \/ ch = ToLowerChar(HexDigits[i])

\* unhex(c) for a hex digit c
unhex(ch) == (CHOOSE i \in 1..16 : ch = HexDigits[i] \/ ch = ToLowerChar(HexDigits[i])) - 1

\* the bytes 0x20 to 0x7E
Ascii ==
    <<" ","!","\"","#","$","%","&","'","(",")","*","+",",","-",".","/",
      "0","1","2","3","4","5","6","7","8","9",":",";","<","=",">","?",
      "@","A","B","C","D","E","F","G","H","I","J","K","L","M","N","O",
      "P","Q","R","S","T","U","V","W","X","Y","Z","[","\\","]","^","_",
      "60","a","b","c","d","e","f","g","h","i","j","k","l","m","n","o",
      "p","q","r","s","t","u","v","w","x","y","z","{","|","}","~">>

\* the byte of value n
ByteOf(n) ==
    IF n >= 32 /\ n <= 126 THEN Ascii[n - 31]
    ELSE HexDigits[(n \div 16) + 1] \o HexDigits[(n % 16) + 1]

\* the value of the byte b
CodeOf(b) == CHOOSE n \in 0..255 : ByteOf(n) = b

\* shouldEscape(ch, mode) for the modes encodePath, encodeHost, encodeZone and
\* encodeFragment
shouldEscape(ch, mode) ==
    IF IsLetter(ch) \/ ch \in Digits THEN FALSE
    ELSE IF /\ mode \in {"encodeHost", "encodeZone"}
            /\ ch \in {"!", "$", "&", "'", "(", ")", "*", "+", ",", ";", "=", ":",
                      "[", "]", "<", ">", "\""}
    THEN FALSE
    ELSE IF ch \in {"-", "_", ".", "~"} THEN FALSE
    ELSE IF ch \in {"$", "&", "+", ",", "/", ":", ";", "=", "?", "@"}
            /\ mode \in {"encodePath", "encodeFragment"}
    THEN mode = "encodePath" /\ ch = "?"
    ELSE IF mode = "encodeFragment" /\ ch \in {"!", "(", ")", "*"} THEN FALSE
    ELSE TRUE

\* escape(s, mode): a byte that shouldEscape becomes "%" and its two
\* upper-case hex digits
RECURSIVE escape(_, _)
escape(s, mode) ==
    IF s = <<>> THEN <<>>
    ELSE IF shouldEscape(Head(s), mode)
    THEN <<"%", HexDigits[(CodeOf(Head(s)) \div 16) + 1],
                HexDigits[(CodeOf(Head(s)) % 16) + 1]>> \o escape(Tail(s), mode)
    ELSE <<Head(s)>> \o escape(Tail(s), mode)

\* validEncoded(s, mode)
validEncoded(s, mode) ==
    \A i \in 1..Len(s) :
        \/ s[i] \in {"!", "$", "&", "'", "(", ")", "*", "+", ",", ";", "=", ":", "@",
                     "[", "]", "%"}
        \/ ~shouldEscape(s[i], mode)

\* unescape: whether the escape "%" hi lo is refused in the mode; a host
\* takes "%25" and the escapes of the bytes from 0x80, a zone also those of a
\* space and of the bytes a host holds unescaped
EscapeRefused(hi, lo, mode) ==
    \/ mode = "encodeHost" /\ unhex(hi) < 8 /\ <<hi, lo>> # <<"2", "5">>
    \/ /\ mode = "encodeZone"
       /\ <<hi, lo>> # <<"2", "5">>
       /\ ByteOf(16 * unhex(hi) + unhex(lo)) # " "
       /\ shouldEscape(ByteOf(16 * unhex(hi) + unhex(lo)), "encodeHost")

\* unescape's first loop: whether the byte at position i makes it fail, that
\* is a "%" without two hex digits or with refused ones, or, in a host, a
\* byte that would need escaping
UnescapeFailsAt(s, i, mode) ==
    IF s[i] = "%"
    THEN \/ i + 2 > Len(s)
         \/ ~ishex(s[i + 1]) \/ ~ishex(s[i + 2])
         \/ EscapeRefused(s[i + 1], s[i + 2], mode)
    ELSE mode \in {"encodeHost", "encodeZone"} /\ shouldEscape(s[i], "encodeHost")

\* unescape's second loop, from position i on: every escape is decoded
RECURSIVE UnescapeFrom(_, _)
UnescapeFrom(s, i) ==
    IF i > Len(s) THEN <<>>
    ELSE IF s[i] = "%"
    THEN <<ByteOf(16 * unhex(s[i + 1]) + unhex(s[i + 2]))>> \o UnescapeFrom(s, i + 3)
    ELSE <<s[i]>> \o UnescapeFrom(s, i + 1)

\* unescape(s, mode): [err, s]
unescape(s, mode) ==
    IF \E i \in 1..Len(s) : UnescapeFailsAt(s, i, mode) THEN [err |-> TRUE, s |-> <<>>]
    ELSE [err |-> FALSE, s |-> UnescapeFrom(s, 1)]

\* getScheme(rawURL): the scheme ends at the first ":" if only scheme
\* characters precede it; a leading ":" is the "missing protocol scheme" error
RECURSIVE SchemeScan(_, _)
SchemeScan(rawURL, i) ==
    IF i > Len(rawURL) THEN [err |-> FALSE, scheme |-> <<>>, rest |-> rawURL]
    ELSE IF IsLetter(rawURL[i]) THEN SchemeScan(rawURL, i + 1)
    ELSE IF rawURL[i] \in Digits \cup {"+", "-", "."}
    THEN IF i = 1 THEN [err |-> FALSE, scheme |-> <<>>, rest |-> rawURL]
         ELSE SchemeScan(rawURL, i + 1)
    ELSE IF rawURL[i] = ":"
    THEN IF i = 1 THEN [err |-> TRUE, scheme |-> <<>>, rest |-> <<>>]
         ELSE [err |-> FALSE, scheme |-> Before(rawURL, i), rest |-> From(rawURL, i + 1)]
    ELSE [err |-> FALSE, scheme |-> <<>>, rest |-> rawURL]

getScheme(rawURL) == SchemeScan(rawURL, 1)

\* validOptionalPort(port): "" or ":" followed by digits only
validOptionalPort(port) ==
    \/ port = <<>>
    \/ /\ port[1] = ":"
       /\ \A i \in 2..Len(port) : port[i] \in Digits

\* parseHost for a host in brackets that end at position bracket; zone is the
\* position of the first "%25" before the closing bracket, from which on the
\* text up to the bracket is unescaped as a zone
ParseZone(host, bracket, zone) ==
    IF zone = 0 THEN unescape(host, "encodeHost")
    ELSE IF \/ unescape(Before(host, zone), "encodeHost").err
            \/ unescape(SubSeq(host, zone, bracket - 1), "encodeZone").err
            \/ unescape(From(host, bracket), "encodeHost").err
    THEN [err |-> TRUE, s |-> <<>>]
    ELSE [err |-> FALSE,
          s |-> unescape(Before(host, zone), "encodeHost").s
                \o unescape(SubSeq(host, zone, bracket - 1), "encodeZone").s
                \o unescape(From(host, bracket), "encodeHost").s]

\* parseHost, given the last "]" and the last ":" of host
ParseHostAt(host, bracket, colon) ==
    IF HasPrefix(host, <<"[">>)
    THEN IF bracket = 0 \/ ~validOptionalPort(From(host, bracket + 1)) THEN [err |-> TRUE, s |-> <<>>]
         ELSE ParseZone(host, bracket, Index(Before(host, bracket), <<"%", "2", "5">>))
    ELSE IF colon # 0 /\ ~validOptionalPort(From(host, colon)) THEN [err |-> TRUE, s |-> <<>>]
    ELSE unescape(host, "encodeHost")

\* parseHost(host): [err, s]
parseHost(host) == ParseHostAt(host, LastIndex(host, <<"]">>), LastIndex(host, <<":">>))

\* the URL value of a failed parse
BadURL ==
    [err |-> TRUE, Scheme |-> <<>>, Opaque |-> <<>>, Host |-> <<>>, Path |-> <<>>,
     RawPath |-> <<>>, ForceQuery |-> FALSE, RawQuery |-> <<>>, OmitHost |-> FALSE,
     Fragment |-> <<>>, RawFragment |-> <<>>]

\* a URL with only its scheme and query set
SchemeQueryURL(scheme, force, query) ==
    [err |-> FALSE, Scheme |-> scheme, Opaque |-> <<>>, Host |-> <<>>, Path |-> <<>>,
     RawPath |-> <<>>, ForceQuery |-> force, RawQuery |-> query, OmitHost |-> FALSE,
     Fragment |-> <<>>, RawFragment |-> <<>>]

\* (*URL).setPath(p): RawPath is kept only when p is not the default
\* encoding of the unescaped path
setPath(url, p) ==
    IF unescape(p, "encodePath").err THEN BadURL
    ELSE [url EXCEPT !.Path = unescape(p, "encodePath").s,
                     !.RawPath = IF p = escape(unescape(p, "encodePath").s, "encodePath")
                                 THEN <<>> ELSE p]

\* (*URL).setFragment(f): RawFragment is kept only when f is not the default
\* encoding of the unescaped fragment
setFragment(url, f) ==
    IF unescape(f, "encodeFragment").err THEN BadURL
    ELSE [url EXCEPT !.Fragment = unescape(f, "encodeFragment").s,
                     !.RawFragment =
                         IF f = escape(unescape(f, "encodeFragment").s, "encodeFragment")
                         THEN <<>> ELSE f]

\* parse: the authority is checked by parseAuthority, its unescaped host and
\* the path are set
SetAuthority(url, authority, path) ==
    IF parseHost(authority).err THEN BadURL
    ELSE setPath([url EXCEPT !.Host = parseHost(authority).s], path)

\* parse: what follows "//" is the authority up to the first "/"
SplitAuthority(url, auth, slash) ==
    IF slash = 0 THEN SetAuthority(url, auth, <<>>)
    ELSE SetAuthority(url, Before(auth, slash), From(auth, slash))

\* parse, once the scheme and the query are cut off rest
ParseRest(url, rest) ==
    IF ~HasPrefix(rest, <<"/">>) /\ url.Scheme # <<>>
    THEN [url EXCEPT !.Opaque = rest]
    ELSE IF ~HasPrefix(rest, <<"/">>) /\ Contains(Cut(rest, <<"/">>)[1], <<":">>)
    THEN BadURL
    ELSE IF /\ url.Scheme # <<>> \/ ~HasPrefix(rest, <<"/", "/", "/">>)
            /\ HasPrefix(rest, <<"/", "/">>)
    THEN SplitAuthority(url, From(rest, 3), Index(From(rest, 3), <<"/">>))
    ELSE setPath([url EXCEPT !.OmitHost = url.Scheme # <<>> /\ HasPrefix(rest, <<"/">>)],
                 rest)

\* parse: a single trailing "?" forces an empty query, else the query is what
\* follows the first "?"
ParseQuery(scheme, rest) ==
    IF HasSuffix(rest, <<"?">>) /\ Cardinality(Occurrences(rest, <<"?">>)) = 1
    THEN ParseRest(SchemeQueryURL(scheme, TRUE, <<>>), Before(rest, Len(rest)))
    ELSE ParseRest(SchemeQueryURL(scheme, FALSE, Cut(rest, <<"?">>)[2]),
                   Cut(rest, <<"?">>)[1])

\* parse(rawURL, viaRequest = false); "*" is a path of its own
parseNoFragment(rawURL) ==
    IF rawURL = <<"*">> THEN [SchemeQueryURL(<<>>, FALSE, <<>>) EXCEPT !.Path = <<"*">>]
    ELSE IF getScheme(rawURL).err THEN BadURL
    ELSE ParseQuery(ToLower(getScheme(rawURL).scheme), getScheme(rawURL).rest)

\* Parse: an empty fragment leaves the URL as parse returned it
SetFragment(url, frag) ==
    IF url.err THEN BadURL ELSE IF frag = <<>> THEN url ELSE setFragment(url, frag)

\* url.Parse(rawURL): the fragment is what follows the first "#"
URLParse(rawURL) ==
    SetFragment(parseNoFragment(Cut(rawURL, <<"#">>)[1]), Cut(rawURL, <<"#">>)[2])

\* splitHostPort: the host without a valid port and without brackets
StripBrackets(host) ==
    IF HasPrefix(host, <<"[">>) /\ HasSuffix(host, <<"]">>)
    THEN SubSeq(host, 2, Len(host) - 1) ELSE host

StripPort(host, colon) ==
    IF colon # 0 /\ validOptionalPort(From(host, colon)) THEN Before(host, colon) ELSE host

\* (*URL).Hostname()
Hostname(url) == StripBrackets(StripPort(url.Host, LastIndex(url.Host, <<":">>)))

\* (*URL).EscapedPath()
EscapedPath(url) ==
    IF /\ url.RawPath # <<>>
       /\ validEncoded(url.RawPath, "encodePath")
       /\ unescape(url.RawPath, "encodePath") = [err |-> FALSE, s |-> url.Path]
    THEN url.RawPath
    ELSE IF url.Path = <<"*">> THEN <<"*">>
    ELSE escape(url.Path, "encodePath")

\* (*URL).EscapedFragment()
EscapedFragment(url) ==
    IF /\ url.RawFragment # <<>>
       /\ validEncoded(url.RawFragment, "encodeFragment")
       /\ unescape(url.RawFragment, "encodeFragment") = [err |-> FALSE, s |-> url.Fragment]
    THEN url.RawFragment
    ELSE escape(url.Fragment, "encodeFragment")

\* (*URL).String(): "//" and the escaped host
URLAuthority(url) ==
    IF (url.Scheme # <<>> \/ url.Host # <<>>) /\ ~(url.OmitHost /\ url.Host = <<>>)
    THEN (IF url.Host # <<>> \/ url.Path # <<>> THEN <<"/", "/">> ELSE <<>>)
         \o escape(url.Host, "encodeHost")
    ELSE <<>>

\* (*URL).String(): the "/" put before a rootless path that follows a host
URLSlash(url, path) ==
    IF path # <<>> /\ path[1] # "/" /\ url.Host # <<>> THEN <<"/">> ELSE <<>>

\* (*URL).String(): the escaped path after pre, with "./" first when nothing
\* is written yet and the first path segment holds a colon
URLPath(url, pre, path) ==
    pre \o (IF url.Scheme = <<>> /\ pre = <<>>
               /\ Contains(Cut(path, <<"/">>)[1], <<":">>)
            THEN <<".", "/">> ELSE <<>>)
        \o path

\* (*URL).String(): the opaque part, or authority and EscapedPath()
URLBody(url) ==
    IF url.Opaque # <<>> THEN url.Opaque
    ELSE URLPath(url, URLAuthority(url) \o URLSlash(url, EscapedPath(url)),
                 EscapedPath(url))

\* (*URL).String(): the query and the escaped fragment
URLTail(url) ==
    (IF url.ForceQuery \/ url.RawQuery # <<>> THEN <<"?">> \o url.RawQuery ELSE <<>>)
    \o (IF url.Fragment # <<>> THEN <<"#">> \o EscapedFragment(url) ELSE <<>>)

\* (*URL).String(): the scheme first
URLString(url) ==
    (IF url.Scheme # <<>> THEN url.Scheme \o <<":">> ELSE <<>>)
    \o URLBody(url) \o URLTail(url)

\* extractHostname(urlString): [err, hostname]
extractHostname(urlString) ==
    IF URLParse(urlString).err THEN [err |-> TRUE, hostname |-> <<>>]
    ELSE [err |-> FALSE, hostname |-> Hostname(URLParse(urlString))]

\* resolvePath's ".." step: the builder is cut back to its last "/"
DotUp(st, cutAt) ==
    IF cutAt = 0 THEN [dst |-> <<>>, first |-> TRUE]
    ELSE [dst |-> Before(st.dst, cutAt), first |-> st.first]

\* resolvePath's loop body: st is [dst, first], dst being the builder's
\* content after its initial "/"
DotStep(st, elem) ==
    IF elem = <<".">> THEN [st EXCEPT !.first = FALSE]
    ELSE IF elem = <<".", ".">> THEN DotUp(st, LastIndex(st.dst, <<"/">>))
    ELSE [dst |-> st.dst \o (IF st.first THEN <<>> ELSE <<"/">>) \o elem, first |-> FALSE]

RECURSIVE DotSegments(_, _)
DotSegments(st, elems) ==
    IF elems = <<>> THEN st ELSE DotSegments(DotStep(st, Head(elems)), Tail(elems))

\* resolvePath's end: no two leading slashes
DropDoubleSlash(r) == IF Len(r) > 1 /\ r[2] = "/" THEN Tail(r) ELSE r

\* resolvePath's end: a path that ends in "." or ".." gets a trailing slash
TrailingSlash(last) == IF last = <<".">> \/ last = <<".", ".">> THEN <<"/">> ELSE <<>>

CleanElements(elems) ==
    DropDoubleSlash(<<"/">> \o DotSegments([dst |-> <<>>, first |-> TRUE], elems).dst
                           \o TrailingSlash(elems[Len(elems)]))

CleanPath(full) == IF full = <<>> THEN <<>> ELSE CleanElements(Split(full, <<"/">>))

\* resolvePath(base, ref)
resolvePath(base, ref) ==
    IF ref = <<>> THEN CleanPath(base)
    ELSE IF ref[1] # "/" THEN CleanPath(Before(base, LastIndex(base, <<"/">>) + 1) \o ref)
    ELSE CleanPath(ref)

\* ResolveReference for a reference without scheme, host or opaque part: url,
\* a copy of ref, takes the base's host and the path resolved from the two
\* escaped paths
ResolveRelative(u, ref, url) ==
    IF ref.Path = <<>> /\ u.Opaque # <<>>
    THEN [url EXCEPT !.Opaque = u.Opaque, !.Host = <<>>, !.Path = <<>>]
    ELSE setPath([url EXCEPT !.Host = u.Host],
                 resolvePath(EscapedPath(u), EscapedPath(ref)))

\* ResolveReference: an empty reference keeps the base's query and, when it
\* has no fragment either, the base's fragment
InheritQuery(u, ref, url) ==
    IF ref.Path = <<>> /\ ~ref.ForceQuery /\ ref.RawQuery = <<>>
    THEN IF ref.Fragment = <<>>
         THEN [url EXCEPT !.RawQuery = u.RawQuery, !.Fragment = u.Fragment,
                          !.RawFragment = u.RawFragment]
         ELSE [url EXCEPT !.RawQuery = u.RawQuery]
    ELSE url

ResolveInto(u, ref, url) ==
    IF ref.Scheme # <<>> \/ ref.Host # <<>>
    THEN setPath(url, resolvePath(EscapedPath(ref), <<>>))
    ELSE IF ref.Opaque # <<>> THEN [url EXCEPT !.Host = <<>>, !.Path = <<>>]
    ELSE ResolveRelative(u, ref, InheritQuery(u, ref, url))

\* (*URL).ResolveReference(ref), u being the base
ResolveReference(u, ref) ==
    ResolveInto(u, ref, [ref EXCEPT !.Scheme = IF ref.Scheme = <<>> THEN u.Scheme ELSE @])

AbsoluteRef(pageURL, ref) ==
    IF ref.err THEN <<>>
    ELSE URLString([ResolveReference(URLParse(pageURL), ref) EXCEPT !.Fragment = <<>>])

\* colly's (*Request).AbsoluteURL(u) for the request of page pageURL: "" for a
\* fragment-only or unparsable link, else the link resolved against the page's
\* URL, without its fragment
AbsoluteURL(pageURL, link) ==
    IF HasPrefix(link, <<"#">>) THEN <<>> ELSE AbsoluteRef(pageURL, URLParse(link))

(***************************************************************************)
(* The -subs filter of line 111: any characters, then a dot or two        *)
(* slashes, then the hostname with its dots escaped, then optionally one   *)
(* of "#", "/", "?" and any characters.  A pattern is a sequence of atoms, *)
(* "lit" for one literal character and "any" for an unescaped dot.         *)
(* Hostnames of the model hold letters, digits, "-", dots and parentheses: *)
(* only the dots are escaped, so a parenthesis of the hostname opens or    *)
(* closes a group of the pattern; the other characters have no other       *)
(* meaning in a pattern.                                                   *)
(***************************************************************************)
\* regexp.MustCompile of line 111 panics: the parts of the pattern around the
\* hostname are balanced, so the pattern has a closing parenthesis without an
\* open group ("unexpected )") or a group left open ("missing closing )") when
\* the hostname has one
MustCompilePanics(hostname) ==
    LET depth(n) == Cardinality({i \in 1..n : hostname[i] = "("})
                    - Cardinality({i \in 1..n : hostname[i] = ")"})
    IN  \/ \E n \in 1..Len(hostname) : depth(n) < 0
        \/ depth(Len(hostname)) # 0

\* the hostname's part of a pattern that compiles: after strings.ReplaceAll(
\* hostname, ".", "\\.") every dot is literal, as the letters, the digits and
\* "-" are; the parentheses of a group match no character
EscapeDots(hostname) ==
    LET Matched(ch) == ch \notin {"(", ")"}
    IN  [i \in 1..Len(SelectSeq(hostname, Matched)) |->
            [kind |-> "lit", ch |-> SelectSeq(hostname, Matched)[i]]]

\* whether the atoms match the characters of u that start at position i
AtomsMatchAt(atoms, u, i) ==
    /\ i + Len(atoms) - 1 <= Len(u)
    /\ \A k \in 1..Len(atoms) :
          atoms[k].kind = "any" \/ atoms[k].ch = u[i + k - 1]

\* colly's isMatchingFilter: regexp.Match is unanchored, so u matches when it
\* holds, anywhere, a dot or two slashes followed by the hostname; the leading
\* wildcard takes what comes before, and the last group is optional, so nothing
\* is asked of what follows
URLFilterMatch(hostname, u) ==
    \E i \in 1..Len(u) :
        \/ u[i] = "." /\ AtomsMatchAt(EscapeDots(hostname), u, i + 1)
        \/ /\ i < Len(u)
           /\ u[i] = "/"
           /\ u[i + 1] = "/"
           /\ AtomsMatchAt(EscapeDots(hostname), u, i + 2)

(***************************************************************************)
(* printResult's output line.                                              *)
(***************************************************************************)
\* encoding/json's string encoding of one character (HTML escaping is on)
JSONChar(ch) ==
    IF ch = "\"" THEN <<"\\", "\"">>
    ELSE IF ch = "\\" THEN <<"\\", "\\">>
    ELSE IF ch = "<" THEN <<"\\", "u", "0", "0", "3", "c">>
    ELSE IF ch = ">" THEN <<"\\", "u", "0", "0", "3", "e">>
    ELSE IF ch = "&" THEN <<"\\", "u", "0", "0", "2", "6">>
    ELSE <<ch>>

RECURSIVE JSONString(_)
JSONString(s) == IF s = <<>> THEN <<>> ELSE JSONChar(Head(s)) \o JSONString(Tail(s))

\* json.Marshal(Result{Source: sourceName, URL: result})
JSONResult(sourceName, result) ==
    <<"{", "\"", "S", "o", "u", "r", "c", "e", "\"", ":", "\"">> \o JSONString(sourceName)
    \o <<"\"", ",", "\"", "U", "R", "L", "\"", ":", "\"">> \o JSONString(result)
    \o <<"\"", "}">>

\* the line printResult sends for the non-empty absolute URL result
FormatLine(result, sourceName, showSource, showJson) ==
    IF showJson THEN JSONResult(sourceName, result)
    ELSE IF showSource THEN <<"[">> \o sourceName \o <<"]", " ">> \o result
    ELSE result

(***************************************************************************)
(* Inputs: the flag values the runs are drawn from, and the pages that the *)
(* fetch capability serves.  Each seed has a small site of its own.        *)
(***************************************************************************)
\* a site where two pages link to the same third page
SeedShared == <<"h","t","t","p",":","/","/","h",".","c","o","/">>
\* a site that links to other hosts
SeedHosts == <<"h","t","t","p",":","/","/","s",".","c","o","/">>
\* a page with one anchor, one script and one form
SeedFixture == <<"h","t","t","p",":","/","/","h","/">>
\* a page whose anchors have an empty href and a javascript: href
SeedOdd == <<"h","t","t","p",":","/","/","o",".","c","o","/">>
\* a seed that parses and whose hostname, a(b, is not a regular expression
SeedParen == <<"h","t","t","p",":","/","/","a","(","b","/">>
SeedUnparsable == <<"h","t","t","p",":","/","/","[","h">>
SeedNoHost == <<>>

\* values of -u
Seeds == {SeedShared, SeedHosts, SeedFixture, SeedOdd, SeedParen, SeedUnparsable, SeedNoHost}

HostHeaderRaw == <<"H","o","s","t",":"," ","b",".","c","o">>

\* values of -h: none, two without a colon, one that sets Host
RawHeaderSamples == {<<>>, <<"X">>, <<"k",";",";","v">>, HostHeaderRaw}

SrcHref == <<"h","r","e","f">>
SrcScript == <<"s","c","r","i","p","t">>
SrcForm == <<"f","o","r","m">>

El(tag, attr) == [tag |-> tag, attr |-> attr]

URLSubdomain == <<"h","t","t","p",":","/","/","x",".","s",".","c","o","/">>
URLSuffixed == <<"h","t","t","p",":","/","/","s",".","c","o",".","e","v","/">>
URLPrefixed == <<"h","t","t","p",":","/","/","n","s",".","c","o","/">>
URLHostHeader == <<"h","t","t","p",":","/","/","b",".","c","o","/">>
HrefVoid == <<"j","a","v","a","s","c","r","i","p","t",":","v","o","i","d","(","0",")">>

\* the elements of the page served at URL u, in document order; <<>> for a
\* page without links and for a URL whose fetch fails
Site(u) ==
    CASE u = SeedShared ->
            << El("a", <<"/","a">>), El("script", <<"/","a">>), El("a", <<"/","b">>) >>
      [] u = <<"h","t","t","p",":","/","/","h",".","c","o","/","a">> -> << El("a", <<"/","d">>) >>
      [] u = <<"h","t","t","p",":","/","/","h",".","c","o","/","b">> -> << El("a", <<"/","d">>) >>
      [] u = SeedHosts ->
            << El("a", URLSubdomain), El("a", URLSuffixed),
               El("a", URLPrefixed), El("a", URLHostHeader) >>
      [] u = SeedFixture ->
            << El("a", <<"/","a">>), El("script", <<"/","b",".","j","s">>), El("form", <<"/","c">>) >>
      [] u = SeedOdd -> << El("a", <<>>), El("a", HrefVoid) >>
      [] OTHER -> <<>>

\* the flags of the plain run: one thread, the default depth of 2, no option
BaseFlags ==
    [urll |-> SeedShared, threads |-> 1, depth |-> 2, subsInScope |-> FALSE,
     showJson |-> FALSE, showSource |-> FALSE, rawHeaders |-> <<>>,
     unique |-> FALSE, timeout |-> -1]

\* the flags in which f differs from the plain run
Varied(f) == {k \in DOMAIN BaseFlags : f[k] # BaseFlags[k]}

(***************************************************************************)
(* The values of the pure functions on the inputs above, computed once: the *)
(* steps below look them up.                                               *)
(***************************************************************************)
\* scrape after requestCheck: the URL is parsed and "http" is its default
\* scheme
DefaultScheme(parsed) ==
    IF parsed.Scheme = <<>> THEN [parsed EXCEPT !.Scheme = <<"h", "t", "t", "p">>]
    ELSE parsed

\* the pages that have elements
SitePages ==
    {SeedShared, SeedShared \o <<"a">>, SeedShared \o <<"b">>, SeedHosts, SeedFixture, SeedOdd}

\* the pairs of a page and the attribute value of one of its elements
SiteLinks == UNION {{<<p, Site(p)[i].attr>> : i \in 1..Len(Site(p))} : p \in SitePages}

\* e.Request.AbsoluteURL(link) for every link of every page
AbsoluteURLs == [pl \in SiteLinks |-> AbsoluteURL(pl[1], pl[2])]

\* extractHostname for every seed
SeedHostnames == [u \in Seeds |-> extractHostname(u)]

\* every URL string the collector is asked to visit
KnownURLs == Seeds \cup {AbsoluteURLs[pl] : pl \in SiteLinks}

\* scrape's parsed URL, with "http" as its default scheme, for every URL
ScrapeURLs == [u \in KnownURLs |-> DefaultScheme(URLParse(u))]

\* the String() of scrape's parsed URL, which the request carries
RequestURLs == [u \in KnownURLs |-> URLString(ScrapeURLs[u])]

\* the -subs filter of every seed hostname whose pattern compiles, on every
\* URL
URLFilterMatches ==
    [hu \in {h \in {SeedHostnames[s].hostname : s \in Seeds} : ~MustCompilePanics(h)} \X KnownURLs
        |-> URLFilterMatch(hu[1], hu[2])]

(***************************************************************************)
(* State.                                                                  *)
(***************************************************************************)
VARIABLES
    flags,      \* the parsed command-line flags, read-only after flag.Parse
    headers,    \* the global headers map
    sm,         \* the global sync.Map of isUnique: the lines seen so far
    pcMain,     \* where main is
    exitCode,   \* -1 while the process runs, else its exit status
    results,    \* the results channel: [buf, closed]
    closeCount, \* how many times close(results) has run
    written,    \* the bag of messages whose lines were written to stdout
    pcOuter,    \* where the goroutine of lines 69-194 is
    pcInner,    \* where the goroutine of lines 170-176 is
    finished,   \* the finished channel: [buf, closed]
    timerFired, \* whether the channel of time.After has its value
    c,          \* the collector's settings
    visited,    \* the collector's store of visited URLs
    wg,         \* the collector's wait group counter
    workers,    \* the bag of running fetch goroutines
    fetched,    \* the bag of [url, depth] handed to a fetch goroutine so far
    sent        \* the bag of messages that the send of line 263 put on results

vars == <<sent, flags, headers, sm, pcMain, exitCode, results, closeCount, written,
          pcOuter, pcInner, finished, timerFired, c, visited, wg, workers, fetched>>

NoCollector ==
    [AllowedDomains |-> [isNil |-> TRUE, list |-> <<>>],
     URLFilters |-> [isNil |-> TRUE, hostname |-> <<>>],
     MaxDepth |-> 0]

\* the state when flag.Parse has returned (line 47)
Init ==
    /\ flags \in [urll : Seeds, threads : 1..MaxThreads, depth : 0..MaxDepthFlag,
                  subsInScope : BOOLEAN, showJson : BOOLEAN, showSource : BOOLEAN,
                  rawHeaders : RawHeaderSamples, unique : BOOLEAN, timeout : {-1, 1}]
    /\ Cardinality(Varied(flags)) <= MaxVaried
    /\ headers = NilHeaders
    /\ sm = {}
    /\ pcMain = "parseHeaders"
    /\ exitCode = -1
    /\ results = [buf |-> <<>>, closed |-> FALSE]
    /\ closeCount = 0
    /\ written = EmptyBag
    /\ pcOuter = "none"
    /\ pcInner = "none"
    /\ finished = [buf |-> <<>>, closed |-> FALSE]
    /\ timerFired = FALSE
    /\ c = NoCollector
    /\ visited = {}
    /\ wg = 0
    /\ workers = EmptyBag
    /\ fetched = EmptyBag
    /\ sent = EmptyBag

\* the process has not exited
Running == exitCode = -1

(***************************************************************************)
(* main (lines 54-59, 68-69, 196-209).                                     *)
(***************************************************************************)
\* lines 55-59: parseHeaders fails, main prints the error and exits with 1
MainParseHeadersFail ==
    /\ Running
    /\ pcMain = "parseHeaders"
    /\ parseHeaders(flags.rawHeaders).err
    /\ headers' = parseHeaders(flags.rawHeaders).headers
    /\ pcMain' = "exited"
    /\ exitCode' = 1
    /\ UNCHANGED <<sent, flags, sm, results, closeCount, written, pcOuter, pcInner,
                   finished, timerFired, c, visited, wg, workers, fetched>>

\* lines 55-69 and 196-198: headers parsed, results made, the goroutine started
MainStart ==
    /\ Running
    /\ pcMain = "parseHeaders"
    /\ ~parseHeaders(flags.rawHeaders).err
    /\ headers' = parseHeaders(flags.rawHeaders).headers
    /\ pcOuter' = "extractHostname"
    /\ pcMain' = IF flags.unique THEN "uniqueLoop" ELSE "loop"
    /\ UNCHANGED <<sent, flags, sm, exitCode, results, closeCount, written, pcInner,
                   finished, timerFired, c, visited, wg, workers, fetched>>

\* isUnique that finds every line new
isUniqueAlways(seen, line) == TRUE

\* isUnique(url): TRUE when the line was not in sm, which then holds it
isUnique(seen, line) == line \notin seen

\* lines 199-203: one iteration of the -unique loop
MainUniqueRecv ==
    /\ Running
    /\ pcMain = "uniqueLoop"
    /\ results.buf # <<>>
    /\ LET res == Head(results.buf)
       IN /\ sm' = sm \cup {res.line}
          /\ written' = IF isUnique(sm, res.line) THEN written (+) SetToBag({res})
                         ELSE written
    /\ results' = [results EXCEPT !.buf = Tail(@)]
    /\ UNCHANGED <<sent, flags, headers, pcMain, exitCode, closeCount, pcOuter, pcInner,
                   finished, timerFired, c, visited, wg, workers, fetched>>

\* line 199: the -unique loop ends when results is closed and drained
MainUniqueEnd ==
    /\ Running
    /\ pcMain = "uniqueLoop"
    /\ results.buf = <<>>
    /\ results.closed
    /\ pcMain' = "loop"
    /\ UNCHANGED <<sent, flags, headers, sm, exitCode, results, closeCount, written, pcOuter,
                   pcInner, finished, timerFired, c, visited, wg, workers, fetched>>

\* lines 205-207: one iteration of the plain loop
MainRecv ==
    /\ Running
    /\ pcMain = "loop"
    /\ results.buf # <<>>
    /\ written' = written (+) SetToBag({Head(results.buf)})
    /\ results' = [results EXCEPT !.buf = Tail(@)]
    /\ UNCHANGED <<sent, flags, headers, sm, pcMain, exitCode, closeCount, pcOuter, pcInner,
                   finished, timerFired, c, visited, wg, workers, fetched>>

\* lines 205-209: the loop ends on the closed, drained channel and main returns
MainReturn ==
    /\ Running
    /\ pcMain = "loop"
    /\ results.buf = <<>>
    /\ results.closed
    /\ pcMain' = "done"
    /\ exitCode' = 0
    /\ UNCHANGED <<sent, flags, headers, sm, results, closeCount, written, pcOuter, pcInner,
                   finished, timerFired, c, visited, wg, workers, fetched>>

(***************************************************************************)
(* The collector (colly v2), as main configures and uses it.               *)
(***************************************************************************)
\* lines 81-87: the hostname, and the Host header's value when there is one
AllowedDomainsOf(hostname, hdrs) ==
    IF ~hdrs.isNil /\ <<"H", "o", "s", "t">> \in DOMAIN hdrs.map
    THEN <<hostname, hdrs.map[<<"H", "o", "s", "t">>]>>
    ELSE <<hostname>>

\* lines 90-112: NewCollector with AllowedDomains and MaxDepth, then -subs
\* replaces the allowed domains by the URL filter, unless regexp.MustCompile
\* panics on the pattern, in which case there is no collector
NewCollector(hostname, hdrs, fl) ==
    IF fl.subsInScope /\ MustCompilePanics(hostname)
    THEN [panic |-> TRUE, c |-> NoCollector]
    ELSE IF fl.subsInScope
    THEN [panic |-> FALSE,
          c |-> [AllowedDomains |-> [isNil |-> TRUE, list |-> <<>>],
                 URLFilters |-> [isNil |-> FALSE, hostname |-> hostname],
                 MaxDepth |-> fl.depth]]
    ELSE [panic |-> FALSE,
          c |-> [AllowedDomains |-> [isNil |-> FALSE, list |-> AllowedDomainsOf(hostname, hdrs)],
                 URLFilters |-> [isNil |-> TRUE, hostname |-> <<>>],
                 MaxDepth |-> fl.depth]]

\* colly.MaxDepth: depth 0 means no limit; the seed is visited at depth 1
DepthExceeded(col, depth) == col.MaxDepth > 0 /\ col.MaxDepth < depth

\* the collector's URLFilters test
FilterRejects(col, u) ==
    /\ ~col.URLFilters.isNil
    /\ ~URLFilterMatches[<<col.URLFilters.hostname, u>>]

\* isDomainAllowed that allows every domain
isDomainAllowedAny(col, domain) == TRUE

\* the collector's isDomainAllowed: any domain when AllowedDomains is empty
isDomainAllowed(col, domain) ==
    \/ col.AllowedDomains.isNil
    \/ Len(col.AllowedDomains.list) = 0
    \/ \E i \in 1..Len(col.AllowedDomains.list) : col.AllowedDomains.list[i] = domain

\* requestCheck before it reads the store: missing URL, depth, URL filter
requestCheckFails(col, u, depth) ==
    \/ u = <<>>
    \/ DepthExceeded(col, depth)
    \/ FilterRejects(col, u)

\* the store's IsVisited(u): a read under the store's lock
IsVisited(store, u) == u \in store

\* scrape goes on to fetch when the URL parses and its domain is allowed
ParsedAllowed(col, parsed) ==
    /\ ~parsed.err
    /\ isDomainAllowed(col, Hostname(parsed))

ScrapeAllowed(col, u) == ParsedAllowed(col, ScrapeURLs[u])

\* the goroutine `go c.fetch(...)` of an Async collector
NewWorker(u, depth) ==
    [url |-> RequestURLs[u], depth |-> depth, pc |-> "queued", idx |-> 0]

\* the note of a dispatched fetch
Dispatched(w) == [url |-> w.url, depth |-> w.depth]

\* the OnHTML callbacks run in the order of registration (lines 124, 131,
\* 136), each over its elements in document order
IsA(el) == el.tag = "a"
IsScript(el) == el.tag = "script"
IsForm(el) == el.tag = "form"

CallbackElements(page) ==
    SelectSeq(page, IsA) \o SelectSeq(page, IsScript) \o SelectSeq(page, IsForm)

\* SourceName when every callback passes "href"
SourceNameAlwaysHref(el) == SrcHref

\* the source name each callback passes to printResult
SourceName(el) ==
    IF el.tag = "a" THEN SrcHref ELSE IF el.tag = "script" THEN SrcScript ELSE SrcForm

(***************************************************************************)
(* The goroutine of lines 69-194.                                          *)
(***************************************************************************)
\* lines 75-79: extractHostname fails, the goroutine logs and returns
OuterExtractFail ==
    /\ Running
    /\ pcOuter = "extractHostname"
    /\ SeedHostnames[flags.urll].err
    /\ pcOuter' = "returned"
    /\ UNCHANGED <<sent, flags, headers, sm, pcMain, exitCode, results, closeCount, written,
                   pcInner, finished, timerFired, c, visited, wg, workers, fetched>>

\* lines 75-111: the set-up of the collector panics in regexp.MustCompile.
\* Nothing recovers a panic of this goroutine, so the runtime prints it and
\* ends the process with status 2: main is stopped where it is, and results
\* is left open
OuterPanic ==
    /\ Running
    /\ pcOuter = "extractHostname"
    /\ ~SeedHostnames[flags.urll].err
    /\ NewCollector(SeedHostnames[flags.urll].hostname, headers, flags).panic
    /\ pcOuter' = "panicked"
    /\ exitCode' = 2
    /\ UNCHANGED <<sent, flags, headers, sm, pcMain, results, closeCount, written, pcInner,
                   finished, timerFired, c, visited, wg, workers, fetched>>

\* lines 75-162 and 168-176: the collector is set up without a panic; without
\* a timeout the goroutine crawls itself, with one it starts the inner
\* goroutine and selects
OuterSetup ==
    /\ Running
    /\ pcOuter = "extractHostname"
    /\ ~SeedHostnames[flags.urll].err
    /\ ~NewCollector(SeedHostnames[flags.urll].hostname, headers, flags).panic
    /\ c' = NewCollector(SeedHostnames[flags.urll].hostname, headers, flags).c
    /\ IF flags.timeout = -1
       THEN pcOuter' = "visit" /\ pcInner' = pcInner
       ELSE pcOuter' = "select" /\ pcInner' = "visit"
    /\ UNCHANGED <<sent, flags, headers, sm, pcMain, exitCode, results, closeCount, written,
                   finished, timerFired, visited, wg, workers, fetched>>

\* scrape's `go c.fetch(...)`: the wait group counts the new goroutine nw
StartFetch(nw) ==
    /\ wg' = wg + 1
    /\ workers' = workers (+) SetToBag({nw})
    /\ fetched' = fetched (+) SetToBag({Dispatched(nw)})

\* c.Visit(url) of lines 164 and 172: the seed is scraped at depth 1
SeedVisit ==
    IF requestCheckFails(c, flags.urll, 1) \/ IsVisited(visited, flags.urll)
    THEN UNCHANGED <<visited, wg, workers, fetched>>
    ELSE /\ visited' = visited \cup {flags.urll}
         /\ IF ScrapeAllowed(c, flags.urll)
            THEN StartFetch(NewWorker(flags.urll, 1))
            ELSE UNCHANGED <<wg, workers, fetched>>

\* line 164
OuterVisit ==
    /\ Running
    /\ pcOuter = "visit"
    /\ SeedVisit
    /\ pcOuter' = "wait"
    /\ UNCHANGED <<sent, flags, headers, sm, pcMain, exitCode, results, closeCount, written,
                   pcInner, finished, timerFired, c>>

\* line 166: c.Wait() returns when the wait group is at zero
OuterWait ==
    /\ Running
    /\ pcOuter = "wait"
    /\ wg = 0
    /\ pcOuter' = "close"
    /\ UNCHANGED <<sent, flags, headers, sm, pcMain, exitCode, results, closeCount, written,
                   pcInner, finished, timerFired, c, visited, wg, workers, fetched>>

\* line 172
InnerVisit ==
    /\ Running
    /\ pcInner = "visit"
    /\ SeedVisit
    /\ pcInner' = "wait"
    /\ UNCHANGED <<sent, flags, headers, sm, pcMain, exitCode, results, closeCount, written,
                   pcOuter, finished, timerFired, c>>

\* line 174
InnerWait ==
    /\ Running
    /\ pcInner = "wait"
    /\ wg = 0
    /\ pcInner' = "send"
    /\ UNCHANGED <<sent, flags, headers, sm, pcMain, exitCode, results, closeCount, written,
                   pcOuter, finished, timerFired, c, visited, wg, workers, fetched>>

\* InnerSend on an unbuffered finished channel: the send waits for the select
\* to receive, which it no longer does after the timeout case
InnerSendUnbuffered ==
    /\ Running
    /\ pcInner = "send"
    /\ finished.closed \/ pcOuter = "select"
    /\ IF finished.closed
       THEN exitCode' = 2 /\ finished' = finished
       ELSE exitCode' = exitCode /\ finished' = [finished EXCEPT !.buf = Append(@, 0)]
    /\ pcInner' = "done"
    /\ UNCHANGED <<sent, flags, headers, sm, pcMain, results, closeCount, written,
                   pcOuter, timerFired, c, visited, wg, workers, fetched>>

\* line 175: finished <- 0 on the channel of capacity 1; on a closed channel
\* the send panics and the process dies with status 2
InnerSend ==
    /\ Running
    /\ pcInner = "send"
    /\ finished.closed \/ Len(finished.buf) < 1
    /\ IF finished.closed
       THEN exitCode' = 2 /\ finished' = finished
       ELSE exitCode' = exitCode /\ finished' = [finished EXCEPT !.buf = Append(@, 0)]
    /\ pcInner' = "done"
    /\ UNCHANGED <<sent, flags, headers, sm, pcMain, results, closeCount, written,
                   pcOuter, timerFired, c, visited, wg, workers, fetched>>

\* line 182: the timer of time.After delivers its value
TimerFire ==
    /\ Running
    /\ pcOuter = "select"
    /\ ~timerFired
    /\ timerFired' = TRUE
    /\ UNCHANGED <<sent, flags, headers, sm, pcMain, exitCode, results, closeCount, written,
                   pcOuter, pcInner, finished, c, visited, wg, workers, fetched>>

\* lines 179-180: the select receives from finished and closes it
SelectFinished ==
    /\ Running
    /\ pcOuter = "select"
    /\ finished.buf # <<>>
    /\ finished' = [buf |-> Tail(finished.buf), closed |-> TRUE]
    /\ pcOuter' = "close"
    /\ UNCHANGED <<sent, flags, headers, sm, pcMain, exitCode, results, closeCount, written,
                   pcInner, timerFired, c, visited, wg, workers, fetched>>

\* SelectTimeout when the timeout case still waits for the crawl to finish
SelectTimeoutWaitsForCrawl ==
    /\ Running
    /\ pcOuter = "select"
    /\ timerFired
    /\ wg = 0
    /\ pcOuter' = "close"
    /\ UNCHANGED <<sent, flags, headers, sm, pcMain, exitCode, results, closeCount, written,
                   pcInner, finished, timerFired, c, visited, wg, workers, fetched>>

\* lines 182-183: the select takes the timer's value
SelectTimeout ==
    /\ Running
    /\ pcOuter = "select"
    /\ timerFired
    /\ pcOuter' = "close"
    /\ UNCHANGED <<sent, flags, headers, sm, pcMain, exitCode, results, closeCount, written,
                   pcInner, finished, timerFired, c, visited, wg, workers, fetched>>

\* line 193: close(results); closing a closed channel panics (status 2)
OuterClose ==
    /\ Running
    /\ pcOuter = "close"
    /\ results' = [results EXCEPT !.closed = TRUE]
    /\ closeCount' = closeCount + 1
    /\ exitCode' = IF results.closed THEN 2 ELSE exitCode
    /\ pcOuter' = "done"
    /\ UNCHANGED <<sent, flags, headers, sm, pcMain, written, pcInner, finished, timerFired,
                   c, visited, wg, workers, fetched>>

(***************************************************************************)
(* The fetch goroutines of the Async collector and the OnHTML callbacks    *)
(* they run (lines 121-138, 245-265).  A worker is [url, depth, pc, idx]:  *)
(* "queued" waits for one of the Parallelism slots, "http" has its request *)
(* in flight, "print", "visit" and "mark" are in the callback of element   *)
(* idx: before printResult, before the collector's visited test, and       *)
(* between that test and the store's Visited call.                         *)
(***************************************************************************)
Workers == BagToSet(workers)

Elements(w) == CallbackElements(Site(w.url))

\* requests in flight, which the LimitRule of line 121 bounds by -t
InFlight == BagCardinality([w \in {x \in Workers : x.pc = "http"} |-> workers[w]])

\* the worker bag once w has finished the callback of its current element:
\* w at its next element, or gone when that was the last one
Advanced(w) ==
    IF w.idx < Len(Elements(w))
    THEN (workers (-) SetToBag({w})) (+) SetToBag({[w EXCEPT !.idx = @ + 1, !.pc = "print"]})
    ELSE workers (-) SetToBag({w})

\* the wait group once w has finished its current element: fetch's deferred
\* wg.Done() runs after the last callback
DoneAfter(w) == IF w.idx < Len(Elements(w)) THEN wg ELSE wg - 1

\* the request gets a Parallelism slot and goes out
FetchStart(w) ==
    /\ Running
    /\ w.pc = "queued"
    /\ InFlight < flags.threads
    /\ workers' = (workers (-) SetToBag({w})) (+) SetToBag({[w EXCEPT !.pc = "http"]})
    /\ UNCHANGED <<sent, flags, headers, sm, pcMain, exitCode, results, closeCount, written,
                   pcOuter, pcInner, finished, timerFired, c, visited, wg, fetched>>

\* FetchDone without wg.Done() for a fetch that failed or found no element
FetchDoneLeaksWaitGroup(w) ==
    /\ Running
    /\ w.pc = "http"
    /\ IF Elements(w) # <<>>
       THEN workers' = (workers (-) SetToBag({w}))
                       (+) SetToBag({[w EXCEPT !.pc = "print", !.idx = 1]})
       ELSE workers' = workers (-) SetToBag({w})
    /\ UNCHANGED <<sent, flags, headers, sm, pcMain, exitCode, results, closeCount, written,
                   pcOuter, pcInner, finished, timerFired, c, visited, wg, fetched>>

\* the response arrives: the callbacks start, or the goroutine ends when the
\* fetch failed or the page has no element of the three kinds
FetchDone(w) ==
    /\ Running
    /\ w.pc = "http"
    /\ IF Elements(w) # <<>>
       THEN /\ workers' = (workers (-) SetToBag({w}))
                          (+) SetToBag({[w EXCEPT !.pc = "print", !.idx = 1]})
            /\ wg' = wg
       ELSE /\ workers' = workers (-) SetToBag({w})
            /\ wg' = wg - 1
    /\ UNCHANGED <<sent, flags, headers, sm, pcMain, exitCode, results, closeCount, written,
                   pcOuter, pcInner, finished, timerFired, c, visited, fetched>>

\* the message printResult sends: the line, and the URL and source it was
\* built from
Message(result, sourceName) ==
    [line |-> FormatLine(result, sourceName, flags.showSource, flags.showJson),
     url |-> result, source |-> sourceName]

ResultOfElement(pageURL, el) == Message(AbsoluteURLs[<<pageURL, el.attr>>], SourceName(el))

ResultOf(w) == ResultOfElement(w.url, Elements(w)[w.idx])

\* what follows printResult in the callback: the href callback goes on to
\* e.Request.Visit (line 127), the others are over
AfterPrint(w, el) ==
    IF el.tag = "a"
    THEN /\ workers' = (workers (-) SetToBag({w})) (+) SetToBag({[w EXCEPT !.pc = "visit"]})
         /\ wg' = wg
    ELSE /\ workers' = Advanced(w)
         /\ wg' = DoneAfter(w)

\* SendResult as a non-blocking send: the message is dropped when the buffer
\* is full
SendResultDropsWhenFull(res) ==
    results' = IF res.url # <<>> /\ ~results.closed /\ Len(results.buf) < flags.threads
               THEN [results EXCEPT !.buf = Append(@, res)]
               ELSE results

\* lines 246-264 for the message res: nothing is sent for an empty absolute
\* URL; else the send waits while the buffer is full, and on a closed channel
\* it panics, which line 259 recovers
SendResult(res) ==
    /\ res.url = <<>> \/ results.closed \/ Len(results.buf) < flags.threads
    /\ results' = IF res.url # <<>> /\ ~results.closed
                  THEN [results EXCEPT !.buf = Append(@, res)]
                  ELSE results

\* w is in printResult with a line to send (line 263)
AtSend(w) == w.pc = "print" /\ ResultOf(w).url # <<>>

\* printResult (lines 245-265), called by the callback of w's current element
PrintResult(w) ==
    /\ Running
    /\ w.pc = "print"
    /\ SendResult(ResultOf(w))
    /\ sent' = IF results' # results THEN sent (+) SetToBag({ResultOf(w)}) ELSE sent
    /\ AfterPrint(w, Elements(w)[w.idx])
    /\ UNCHANGED <<flags, headers, sm, pcMain, exitCode, closeCount, written,
                   pcOuter, pcInner, finished, timerFired, c, visited, fetched>>

\* the URL e.Request.Visit(link) scrapes (line 127)
VisitURL(w) == AbsoluteURLs[<<w.url, Elements(w)[w.idx].attr>>]

\* requestCheck up to and including the store's IsVisited
CheckRejects(u, depth) == requestCheckFails(c, u, depth) \/ IsVisited(visited, u)

\* e.Request.Visit(link) up to the store's IsVisited: the request is dropped
\* when requestCheck fails or the URL is already in the store
VisitCheck(w) ==
    /\ Running
    /\ w.pc = "visit"
    /\ IF CheckRejects(VisitURL(w), w.depth + 1)
       THEN /\ workers' = Advanced(w)
            /\ wg' = DoneAfter(w)
       ELSE /\ workers' = (workers (-) SetToBag({w})) (+) SetToBag({[w EXCEPT !.pc = "mark"]})
            /\ wg' = wg
    /\ UNCHANGED <<sent, flags, headers, sm, pcMain, exitCode, results, closeCount, written,
                   pcOuter, pcInner, finished, timerFired, c, visited, fetched>>

\* scrape's `go c.fetch(...)` from the callback of w, which is then over
StartFetchFrom(w, nw) ==
    /\ workers' = Advanced(w) (+) SetToBag({nw})
    /\ wg' = DoneAfter(w) + 1
    /\ fetched' = fetched (+) SetToBag({Dispatched(nw)})

\* requestCheck's store.Visited(u) and the rest of scrape
MarkAndScrape(w, u) ==
    /\ visited' = visited \cup {u}
    /\ IF ScrapeAllowed(c, u)
       THEN StartFetchFrom(w, NewWorker(u, w.depth + 1))
       ELSE /\ workers' = Advanced(w)
            /\ wg' = DoneAfter(w)
            /\ fetched' = fetched

\* e.Request.Visit(link) from the store's Visited on: the URL is stored, and
\* if its domain is allowed a new fetch goroutine is started at depth + 1
VisitMark(w) ==
    /\ Running
    /\ w.pc = "mark"
    /\ MarkAndScrape(w, VisitURL(w))
    /\ UNCHANGED <<sent, flags, headers, sm, pcMain, exitCode, results, closeCount, written,
                   pcOuter, pcInner, finished, timerFired, c>>

(***************************************************************************)
(* The Go runtime: when main waits on results and no other goroutine is    *)
(* left, the runtime ends the process with "all goroutines are asleep",    *)
(* status 2.                                                               *)
(***************************************************************************)
GoDeadlock ==
    /\ Running
    /\ pcMain \in {"uniqueLoop", "loop"}
    /\ results.buf = <<>>
    /\ ~results.closed
    /\ pcOuter \in {"returned", "done"}
    /\ pcInner \in {"none", "done"}
    /\ workers = EmptyBag
    /\ exitCode' = 2
    /\ pcMain' = "deadlock"
    /\ UNCHANGED <<sent, flags, headers, sm, results, closeCount, written, pcOuter, pcInner,
                   finished, timerFired, c, visited, wg, workers, fetched>>

Next ==
    \/ MainParseHeadersFail
    \/ MainStart
    \/ MainUniqueRecv
    \/ MainUniqueEnd
    \/ MainRecv
    \/ MainReturn
    \/ OuterExtractFail
    \/ OuterPanic
    \/ OuterSetup
    \/ OuterVisit
    \/ OuterWait
    \/ InnerVisit
    \/ InnerWait
    \/ InnerSend
    \/ TimerFire
    \/ SelectFinished
    \/ SelectTimeout
    \/ OuterClose
    \/ GoDeadlock
    \/ \E w \in Workers : FetchStart(w)
    \/ \E w \in Workers : FetchDone(w)
    \/ \E w \in Workers : PrintResult(w)
    \/ \E w \in Workers : VisitCheck(w)
    \/ \E w \in Workers : VisitMark(w)

Spec == Init /\ [][Next]_vars

\* The Go scheduler runs a goroutine that can take a step: once the select
\* of line 178 has a ready case the goroutine of lines 69-194 goes on to
\* close(results), and main's range loop receives what results holds and ends
\* when it is closed and empty.  Nothing is assumed of the network: a request
\* in flight may never return, so the fetch goroutines get no fairness.
FairSpec ==
    /\ Spec
    /\ WF_vars(MainUniqueRecv \/ MainUniqueEnd \/ MainRecv \/ MainReturn)
    /\ WF_vars(SelectFinished \/ SelectTimeout)
    /\ WF_vars(OuterClose)

(***************************************************************************)
(* Properties.                                                             *)
(***************************************************************************)
SeedParses == ~SeedHostnames[flags.urll].err

SeedHostname == SeedHostnames[flags.urll].hostname

Fetched == BagToSet(fetched)

\* how many fetch goroutines were started for URL u
FetchCount(u) == BagCardinality([e \in {x \in Fetched : x.url = u} |-> fetched[e]])

\* the hostname of every URL a request can carry
RequestHostnames ==
    [u \in {RequestURLs[k] : k \in KnownURLs} |-> Hostname(URLParse(u))]

\* the hostname of a fetched URL
FetchedHost(e) == RequestHostnames[e.url]

\* results is never closed twice, and it has been closed exactly once when
\* the goroutine of lines 69-194 is over, by its last statement or by a
\* panic, and when the process has ended after that goroutine was started
ClosedExactlyOnce ==
    /\ closeCount <= 1
    /\ results.closed <=> closeCount = 1
    /\ pcOuter \in {"done", "panicked"} => closeCount = 1
    /\ (~Running /\ pcOuter # "none") => closeCount = 1

\* C1: when the seed URL parses, results is closed exactly once, never zero
\* times and never twice, whatever the order of the crawl's end and the timer.
C1_ClosedExactlyOnce == SeedParses => ClosedExactlyOnce

\* the same in the runs in which the set-up of the collector does not panic:
\* line 193 is the only close, and every path from line 112 on reaches it once
ClosedOnceAfterSetup ==
    (SeedParses /\ ~(flags.subsInScope /\ MustCompilePanics(SeedHostname)))
        => ClosedExactlyOnce

\* C2: once results is closed, no worker is in printResult with a line to
\* send on it.
C2_NoSendAfterClose ==
    results.closed => \A w \in Workers : ~AtSend(w)

\* C3: with a timeout configured, once the timer has fired main eventually
\* returns with status 0, results closed and drained, whether or not the
\* requests in flight ever return.
C3_TimeoutTerminates ==
    (flags.timeout # -1 /\ timerFired)
        ~> (pcMain = "done" /\ exitCode = 0 /\ results.closed /\ results.buf = <<>>)

\* main has returned after the timer fired while a request was still in flight
C3_Witness ==
    /\ timerFired
    /\ pcMain = "done"
    /\ \E w \in Workers : w.pc = "http"

\* C4: no URL is handed to a fetch goroutine twice.
C4_FetchedAtMostOnce ==
    \A e \in Fetched : FetchCount(e.url) <= 1

\* C5: every fetched URL is at most -d link-hops from the seed; the seed, which
\* the collector scrapes at depth 1, is at hop 0.
C5_DepthBound ==
    \A e \in Fetched : e.depth - 1 <= flags.depth

\* a hostname equal to the seed's or a proper subdomain of it
InSubdomainScope(hostname, seedHost) ==
    \/ hostname = seedHost
    \/ HasSuffix(hostname, <<".">> \o seedHost)

\* C6: with -subs, every fetched URL has the seed's hostname or a proper
\* subdomain of it as its hostname.
C6_SubsScope ==
    flags.subsInScope => \A e \in Fetched : InSubdomainScope(FetchedHost(e), SeedHostname)

\* the value of the Host header, when one is configured
HostHeaderValues ==
    IF ~headers.isNil /\ <<"H", "o", "s", "t">> \in DOMAIN headers.map
    THEN {headers.map[<<"H", "o", "s", "t">>]}
    ELSE {}

\* C7: without -subs, every fetched URL has the seed's hostname or the value
\* of the configured Host header as its hostname.
C7_AllowSet ==
    ~flags.subsInScope =>
        \A e \in Fetched : FetchedHost(e) \in {SeedHostname} \cup HostHeaderValues

\* without -subs and with a Host header, the page of the header's host was
\* fetched, and the links to the other hosts were emitted but not fetched
C7_Witness ==
    /\ ~flags.subsInScope
    /\ HostHeaderValues # {}
    /\ FetchCount(URLHostHeader) = 1
    /\ \E m \in BagToSet(written) : m.url = URLSuffixed
    /\ pcMain = "done"

\* how many written lines carry URL u
WrittenCount(u) ==
    BagCardinality([m \in {x \in BagToSet(written) : x.url = u} |-> written[m]])

\* C8: with -unique, no URL is written twice, in any output mode.
C8_UniqueURLs ==
    flags.unique => \A m \in BagToSet(written) : WrittenCount(m.url) <= 1

\* C9: when the seed URL does not parse nothing is fetched, and the process
\* ends with status 1.
C9_SeedErrorExits1 ==
    ~SeedParses =>
        /\ fetched = EmptyBag
        /\ ~Running => exitCode = 1

\* a -h value without a colon
HeaderLacksColon == flags.rawHeaders # <<>> /\ ~Contains(flags.rawHeaders, <<":">>)

\* C10: a -h value without a colon is fatal: the goroutine of lines 69-194 is
\* never started, nothing is fetched, headers stays nil, and once parseHeaders
\* has returned the process has exited with status 1.
C10_HeaderErrorFatal ==
    HeaderLacksColon =>
        /\ pcOuter = "none"
        /\ fetched = EmptyBag
        /\ headers = NilHeaders
        /\ pcMain \in {"parseHeaders", "exited"}
        /\ pcMain = "exited" <=> exitCode = 1
        /\ pcMain = "parseHeaders" <=> Running

\* the process has exited with status 1 on a -h value of several parts, none
\* with a colon
C10_Witness ==
    /\ HeaderLacksColon
    /\ Contains(flags.rawHeaders, <<";", ";">>)
    /\ pcMain = "exited"
    /\ exitCode = 1

\* the select took the timer's value: the goroutine of lines 69-194 is past
\* the select and finished was not received
TimedOut ==
    /\ flags.timeout # -1
    /\ pcOuter \in {"close", "done"}
    /\ ~finished.closed

\* C11: once the select has taken the timeout case and the seed has been
\* visited, no step of the run hands another URL to a fetch goroutine.
C11_NoFetchAfterTimeout ==
    [][(TimedOut /\ pcInner # "visit") => fetched' = fetched]_vars

\* C15: on the page whose only elements are an anchor with an empty href and
\* an anchor with href "javascript:void(0)", nothing is sent to results or
\* written, and no URL but the seed is handed to a fetch goroutine.
C15_NoResultForVoidHref ==
    flags.urll = SeedOdd =>
        /\ results.buf = <<>>
        /\ written = EmptyBag
        /\ \A e \in Fetched : e.url = SeedOdd

\* C16: for a seed URL without a hostname, once the goroutine of lines 69-194
\* has called extractHostname it has got an error and returned: it never sets
\* up the collector or crawls.
C16_HostlessSeedFails ==
    (SeedHostname = <<>> /\ pcOuter \notin {"none", "extractHostname"}) =>
        /\ extractHostname(flags.urll).err
        /\ pcOuter = "returned"
        /\ c = NoCollector

\* the URLs of the elements of the seed page
SeedPageURLs ==
    {AbsoluteURL(flags.urll, Site(flags.urll)[i].attr) : i \in 1..Len(Site(flags.urll))}

\* C18: on the fixture page with one anchor, one script and one form, all on
\* the seed's host, a crawl of depth 2 without timeout has fetched the URL of
\* each of the three elements when it is over.
C18_AllClassesFetched ==
    (/\ flags.urll = SeedFixture
     /\ flags.depth = 2
     /\ flags.timeout = -1
     /\ pcMain = "done")
        => \A u \in SeedPageURLs : FetchCount(u) >= 1

\* the bag b with every count multiplied by k
Scale(b, k) == [x \in DOMAIN b |-> b[x] * k]

\* the bag of the elements of the sequence q
RECURSIVE SeqBag(_)
SeqBag(q) == IF q = <<>> THEN EmptyBag ELSE SetToBag({Head(q)}) (+) SeqBag(Tail(q))

\* the messages with a non-empty URL that the callbacks of the page at
\* pageURL produce for its first n elements, in callback order
RECURSIVE PageMessages(_, _)
PageMessages(pageURL, n) ==
    IF n = 0 THEN EmptyBag
    ELSE IF AbsoluteURLs[<<pageURL, CallbackElements(Site(pageURL))[n].attr>>] = <<>>
    THEN PageMessages(pageURL, n - 1)
    ELSE PageMessages(pageURL, n - 1)
         (+) SetToBag({[line |-> FormatLine(AbsoluteURLs[<<pageURL, CallbackElements(Site(pageURL))[n].attr>>],
                                           SourceName(CallbackElements(Site(pageURL))[n]),
                                           flags.showSource, flags.showJson),
                        url |-> AbsoluteURLs[<<pageURL, CallbackElements(Site(pageURL))[n].attr>>],
                        source |-> SourceName(CallbackElements(Site(pageURL))[n])]})

\* how many elements of its page the worker w has passed to printResult and
\* got back from it
PrintedBy(w) ==
    IF w.pc \in {"queued", "http"} THEN 0
    ELSE IF w.pc = "print" THEN w.idx - 1
    ELSE w.idx

\* the fetches of the worker goroutines of W, each as often as workers has it
RECURSIVE DispatchedBy(_)
DispatchedBy(W) ==
    IF W = {} THEN EmptyBag
    ELSE Scale(SetToBag({Dispatched(CHOOSE w \in W : TRUE)}), workers[CHOOSE w \in W : TRUE])
         (+) DispatchedBy(W \ {CHOOSE w \in W : TRUE})

\* the fetches whose goroutine is over
Completed == fetched (-) DispatchedBy(Workers)

\* the messages of the whole pages of the fetches E, each as often as done has it
RECURSIVE MessagesOfCompleted(_, _)
MessagesOfCompleted(E, done) ==
    IF E = {} THEN EmptyBag
    ELSE Scale(PageMessages((CHOOSE e \in E : TRUE).url,
                            Len(CallbackElements(Site((CHOOSE e \in E : TRUE).url)))),
               done[CHOOSE e \in E : TRUE])
         (+) MessagesOfCompleted(E \ {CHOOSE e \in E : TRUE}, done)

\* the messages the worker goroutines of W have produced so far
RECURSIVE MessagesOfRunning(_)
MessagesOfRunning(W) ==
    IF W = {} THEN EmptyBag
    ELSE Scale(PageMessages((CHOOSE w \in W : TRUE).url, PrintedBy(CHOOSE w \in W : TRUE)),
               workers[CHOOSE w \in W : TRUE])
         (+) MessagesOfRunning(W \ {CHOOSE w \in W : TRUE})

\* every message a printResult call has passed line 263 with
Produced ==
    MessagesOfCompleted(BagToSet(Completed), Completed) (+) MessagesOfRunning(Workers)

\* C12: without timeout and without -unique, the messages the callbacks have
\* produced are exactly those written plus those in the buffer of results,
\* each as often as it was produced; the buffer never holds more than -t
\* messages; and when main has returned every message has been written.
C12_ResultsConserved ==
    (flags.timeout = -1 /\ ~flags.unique) =>
        /\ Len(results.buf) <= flags.threads
        /\ written (+) SeqBag(results.buf) = Produced
        /\ pcMain = "done" => (results.buf = <<>> /\ workers = EmptyBag /\ written = Produced)

\* the buffer is full and a callback waits in printResult with a line to
\* send, after at least one message has been written
C12_Witness ==
    /\ flags.timeout = -1
    /\ ~flags.unique
    /\ Len(results.buf) = flags.threads
    /\ \E w \in Workers : AtSend(w)
    /\ written # EmptyBag

\* The Go scheduler runs every goroutine that can take a step, and every
\* request returns, with a page or with an error: all steps but the timer's
\* are weakly fair.
CrawlFairSpec ==
    /\ Spec
    /\ WF_vars(MainParseHeadersFail \/ MainStart \/ MainUniqueRecv \/ MainUniqueEnd
               \/ MainRecv \/ MainReturn)
    /\ WF_vars(OuterExtractFail \/ OuterPanic \/ OuterSetup \/ OuterVisit \/ OuterWait
               \/ SelectFinished \/ SelectTimeout \/ OuterClose)
    /\ WF_vars(InnerVisit \/ InnerWait \/ InnerSend)
    /\ WF_vars(GoDeadlock)
    /\ WF_vars(\E w \in Workers : FetchStart(w))
    /\ WF_vars(\E w \in Workers : FetchDone(w))
    /\ WF_vars(\E w \in Workers : PrintResult(w))
    /\ WF_vars(\E w \in Workers : VisitCheck(w))
    /\ WF_vars(\E w \in Workers : VisitMark(w))

\* without timeout, the goroutine of lines 69-194 is past c.Wait() only when
\* no fetch goroutine is left and the wait group is at zero
CloseAfterDrain ==
    flags.timeout = -1 =>
        /\ pcOuter \in {"close", "done"} => (workers = EmptyBag /\ wg = 0)
        /\ results.closed => (workers = EmptyBag /\ wg = 0)

\* C13: without timeout, results is closed only after the last fetch
\* goroutine and callback are over; and once the goroutine of lines 69-194 is
\* about to visit the seed, main eventually returns with status 0, results
\* closed and drained, also when fetches fail.
C13_CrawlCompletes ==
    /\ []CloseAfterDrain
    /\ (pcOuter = "visit")
           ~> (pcMain = "done" /\ exitCode = 0 /\ results.closed /\ results.buf = <<>>
               /\ workers = EmptyBag)

\* main has returned from a crawl without timeout in which a fetched URL had
\* no page to serve
C13_Witness ==
    /\ flags.timeout = -1
    /\ pcMain = "done"
    /\ closeCount = 1
    /\ \E e \in Fetched : e.url \notin SitePages

\* the [source, URL] pairs of the written lines
WrittenResults == {<<m.source, m.url>> : m \in BagToSet(written)}

\* the three Results of the fixture page
FixtureResults ==
    {<<SrcHref, <<"h","t","t","p",":","/","/","h","/","a">>>>,
     <<SrcScript, <<"h","t","t","p",":","/","/","h","/","b",".","j","s">>>>,
     <<SrcForm, <<"h","t","t","p",":","/","/","h","/","c">>>>}

\* C14: for the fixture page at http://h/ with -d 1 and -t 1 and no timeout,
\* when main has returned the output is exactly three lines, one for the
\* anchor tagged href, one for the script tagged script and one for the form
\* tagged form, each with the absolute URL of its attribute; in plain mode the
\* line is that URL.
C14_FixtureResults ==
    (/\ flags.urll = SeedFixture
     /\ flags.depth = 1
     /\ flags.threads = 1
     /\ flags.timeout = -1
     /\ pcMain = "done")
        => /\ WrittenResults = FixtureResults
           /\ BagCardinality(written) = 3
           /\ (~flags.showSource /\ ~flags.showJson)
                 => \A m \in BagToSet(written) : m.line = m.url
           /\ \A e \in Fetched : e.url = SeedFixture

\* main has returned from the crawl of the fixture page with -d 1 and -t 1,
\* with three lines written
C14_Witness ==
    /\ flags.urll = SeedFixture
    /\ flags.depth = 1
    /\ flags.threads = 1
    /\ flags.timeout = -1
    /\ pcMain = "done"
    /\ BagCardinality(written) = 3

\* the send of line 263 put the message m on results
Emitted(m) == BagIn(m, sent)

\* every printResult call that is past line 263 with a non-empty URL, in a
\* running or a finished fetch goroutine, has put its message on results, each
\* call its own; and every URL that a callback handed to a fetch goroutine was
\* sent as an href before
EmissionHolds ==
    /\ sent = Produced
    /\ \A e \in Fetched :
          e.depth > 1 => Emitted([line |-> FormatLine(e.url, SrcHref, flags.showSource, flags.showJson),
                                  url |-> e.url, source |-> SrcHref])

\* C17, as stated: in every run, every element whose attribute resolves to a
\* non-empty absolute URL has its message sent on results once its callback is
\* past printResult, in scope or not, visited or not, within the depth limit
\* or not, and an href is sent before it is visited.
C17_EmitsRegardless == EmissionHolds

\* the same as long as results is open, and throughout a run without
\* timeout: scope, the visited store and the depth never keep a message from
\* results; only the close of line 193 does
EmittedUntilClose == (~results.closed \/ flags.timeout = -1) => EmissionHolds

\* C19: with a timeout configured, the send on finished at line 175 finds the
\* channel open and its buffer empty, so it neither waits nor panics; finished
\* is closed only after its one value was received, by which time the inner
\* goroutine is past the send; and no close of finished precedes the send in
\* either outcome of the select.
C19_FinishedSendSafe ==
    flags.timeout # -1 =>
        /\ pcInner \in {"visit", "wait", "send"} => (~finished.closed /\ finished.buf = <<>>)
        /\ (Running /\ pcInner = "send") => ENABLED InnerSend
        /\ finished.closed => (pcInner = "done" /\ finished.buf = <<>> /\ ~TimedOut)
        /\ Len(finished.buf) <= 1
        /\ pcInner = "done" => exitCode # 2

\* the timer was taken first and the crawl finished later: the inner goroutine
\* has sent its value into the buffer of finished, which nobody receives
C19_Witness ==
    /\ TimedOut
    /\ pcInner = "done"
    /\ finished.buf = <<0>>
    /\ ~finished.closed
    /\ exitCode # 2

\* how many written messages carry the line l
LineCount(l) ==
    BagCardinality([m \in {x \in BagToSet(written) : x.line = l} |-> written[m]])

\* C20: with -unique every line is written at most once and only lines that
\* isUnique has stored; main leaves the first loop only when results is closed
\* and drained, so the loop of lines 205-207 never receives, and main returns
\* with what the first loop wrote.
C20_UniqueLoopOnly ==
    flags.unique =>
        /\ \A m \in BagToSet(written) : LineCount(m.line) = 1 /\ m.line \in sm
        /\ BagCardinality(written) = Cardinality(sm)
        /\ pcMain \in {"loop", "done"} => (results.closed /\ results.buf = <<>>)
        /\ ~ENABLED MainRecv

\* main has returned from a -unique crawl of the site where two pages link to
\* the same third page and one URL is both an href and a script source: five
\* lines were sent, three were written
C20_Witness ==
    /\ flags.unique
    /\ flags.urll = SeedShared
    /\ flags.timeout = -1
    /\ pcMain = "done"
    /\ BagCardinality(Produced) = 5
    /\ BagCardinality(written) = 3

====
